---- MODULE Spec2Model ----
(***************************************************************************)
(* outline_cli.py: the profile store (config.ini through configparser),    *)
(* the one-time migration from the legacy .env file, and the command       *)
(* dispatcher of main().                                                    *)
(*                                                                         *)
(* A string is a sequence of one-character strings.  Python's None is the  *)
(* one-element sequence <<"None">>, which is no string over any alphabet   *)
(* used here.                                                              *)
(***************************************************************************)
EXTENDS Integers, Sequences, FiniteSets, TLC

VARIABLES
    configDirExists,  \* CONFIG_DIR (~/.outline) exists
    configExists,     \* CONFIG_FILE (~/.outline/config.ini) exists
    config,           \* the sections of CONFIG_FILE, in file order, as
                      \* ConfigParser.read returns them
    legacy,           \* OLD_ENV_FILE (.env): whether it exists and what it sets
    ret,              \* the store operation last called and what it returned
    pc,               \* where the running process is: "idle" before main()
                      \* starts, a prompt or the remote call it blocks on,
                      \* "exited" once it has ended
    args,             \* the parsed command line
    client,           \* the (api_url, cert_sha256) the OutlineVPN client
                      \* was built with
    calls,            \* the remote-client calls this process has made
    writes,           \* the save_profile and remove_profile calls this
                      \* process has made
    out,              \* the lines this process has printed
    exitCode,         \* its exit status, -1 while it runs
    row               \* one row of a list view: the fields it is given and
                      \* the columns it shows

storeVars == <<configDirExists, configExists, config>>

runVars == <<pc, args, client, calls, writes, out, exitCode>>

vars == <<configDirExists, configExists, config, legacy, ret,
          pc, args, client, calls, writes, out, exitCode, row>>

----------------------------------------------------------------------------
(* Bounds and input sets *)

\* Longest API URL handed to the store or typed at a prompt.
MaxLen == 2

\* Most blanks typed before or after a value at a prompt.
MaxPad == 1

None == <<"None">>

NoClient == <<>>

\* No mb argument (every command but limit).
NoMb == [kind |-> "none", num |-> 0, den |-> 1]

Alphabet == {"a", "%"}

Strs(A, n) == UNION {[1..k -> A] : k \in 0..n}

ApiValues == Strs(Alphabet, MaxLen)

CertValues == {<<>>, <<"c">>}

Spaces(k) == [i \in 1..k |-> " "]

\* The API URLs handed to save_profile: each value, bare and after a blank.
ApiArgs == ApiValues \cup {Spaces(1) \o v : v \in ApiValues}

\* "DEFAULT" is configparser's default section name.
ProfileNames == {"default", "home", "DEFAULT"}

----------------------------------------------------------------------------
(* Python and configparser string operations *)

Falsy(v) == v = None \/ v = <<>>

RECURSIVE lstrip(_)
lstrip(s) == IF s # <<>> /\ Head(s) = " " THEN lstrip(Tail(s)) ELSE s

RECURSIVE rstrip(_)
rstrip(s) ==
    IF s # <<>> /\ s[Len(s)] = " " THEN rstrip(SubSeq(s, 1, Len(s) - 1)) ELSE s

\* str.strip()
strip(s) == rstrip(lstrip(s))

\* BasicInterpolation.before_set: after dropping every "%%", no "%" may be
\* left (no "%(name)s" reference can be written over this alphabet).
RECURSIVE before_set_ok(_)
before_set_ok(s) ==
    IF s = <<>> THEN TRUE
    ELSE IF Head(s) # "%" THEN before_set_ok(Tail(s))
    ELSE IF Len(s) >= 2 /\ s[2] = "%" THEN before_set_ok(Tail(Tail(s)))
    ELSE FALSE

InterpolationSyntaxError == <<"InterpolationSyntaxError">>

\* BasicInterpolation.before_get: "%%" reads as "%"; a lone "%" raises.
RECURSIVE before_get(_)
before_get(s) ==
    IF s = <<>> THEN <<>>
    ELSE IF Head(s) # "%" THEN
        LET rest == before_get(Tail(s))
        IN  IF rest = InterpolationSyntaxError THEN rest ELSE <<Head(s)>> \o rest
    ELSE IF Len(s) >= 2 /\ s[2] = "%" THEN
        LET rest == before_get(Tail(Tail(s)))
        IN  IF rest = InterpolationSyntaxError THEN rest ELSE <<"%">> \o rest
    ELSE InterpolationSyntaxError

----------------------------------------------------------------------------------------------------------------------------------------------
(* The profile store *)

Section(name, api_url, cert_sha256) ==
    [name |-> name, api_url |-> api_url, cert_sha256 |-> cert_sha256]

\* The sections of CONFIG_FILE; none when the file does not exist.
get_config == IF configExists THEN config ELSE <<>>

\* config.write(f), as a later ConfigParser.read returns it: the parser
\* strips every value.
written(cfg) ==
    [i \in DOMAIN cfg |->
        Section(cfg[i].name, strip(cfg[i].api_url), strip(cfg[i].cert_sha256))]

sections(cfg) == [i \in DOMAIN cfg |-> cfg[i].name]

HasSection(cfg, profile) == \E i \in DOMAIN cfg : cfg[i].name = profile

SectionOf(cfg, profile) == cfg[CHOOSE i \in DOMAIN cfg : cfg[i].name = profile]

list_profiles(cfg) == sections(cfg)

load_profile(cfg, profile) ==
    IF ~HasSection(cfg, profile) THEN <<None, None>>
    ELSE <<before_get(SectionOf(cfg, profile).api_url),
           before_get(SectionOf(cfg, profile).cert_sha256)>>

\* add_section refuses the default section's name; set() refuses a value
\* that before_set rejects.
save_raises(cfg, profile, api_url, cert_sha256) ==
    \/ ~HasSection(cfg, profile) /\ profile = "DEFAULT"
    \/ ~before_set_ok(api_url)
    \/ ~before_set_ok(cert_sha256)

\* Faulty variant: writes the new section without reading the file first.
save_profile_alone(cfg, profile, api_url, cert_sha256) ==
    written(<<Section(profile, api_url, cert_sha256)>>)

\* The sections save_profile leaves in CONFIG_FILE.
save_profile(cfg, profile, api_url, cert_sha256) ==
    written(IF HasSection(cfg, profile)
            THEN [i \in DOMAIN cfg |->
                    IF cfg[i].name = profile
                    THEN Section(profile, api_url, cert_sha256)
                    ELSE cfg[i]]
            ELSE Append(cfg, Section(profile, api_url, cert_sha256)))

\* Faulty variant: rewrites the file without removing the section.
remove_profile_keeps(cfg, profile) == written(cfg)

\* The sections remove_profile leaves in CONFIG_FILE.
remove_profile(cfg, profile) ==
    written(SelectSeq(cfg, LAMBDA s : s.name # profile))

\* What OLD_ENV_FILE sets, as python-dotenv parses it (None: the key is absent).
LegacyApi == {<<"a">>, <<"a", "%">>}

LegacyCert == {None, <<"c">>}

NoLegacy == [exists |-> FALSE, api_url |-> None, cert_sha256 |-> None]

LegacyFiles ==
    {NoLegacy} \cup
    {[exists |-> TRUE, api_url |-> a, cert_sha256 |-> c] :
        a \in LegacyApi, c \in LegacyCert}

\* OUTLINE_API_URL and OUTLINE_CERT_SHA256 as the process environment may
\* already set them (None: unset); load_dotenv does not override them.
EnvApi == {None, <<"a", "a">>}

EnvCert == {None, <<"c">>}

\* load_dotenv(OLD_ENV_FILE) then os.getenv(key)
getenv(preset, fromFile) == IF preset # None THEN preset ELSE fromFile

\* Faulty variant: does not look for CONFIG_FILE.
migrate_triggers_always == legacy.exists

migrate_triggers == legacy.exists /\ ~configExists

\* What migrate_from_env does: "False" and "True" are its return values,
\* "ValueError" is save_profile raising through it.  dotenv: whether
\* python-dotenv can be imported.
migrate_from_env(dotenv, envApi, envCert) ==
    LET api_url == getenv(envApi, legacy.api_url)
        cert_sha256 == getenv(envCert, legacy.cert_sha256)
    IN  IF ~migrate_triggers \/ ~dotenv \/ Falsy(api_url) \/ Falsy(cert_sha256)
        THEN "False"
        ELSE IF save_raises(<<>>, "default", api_url, cert_sha256)
        THEN "ValueError"
        ELSE "True"

\* The sections a migration leaves in CONFIG_FILE.
migrated_config(envApi, envCert) ==
    save_profile(<<>>, "default", getenv(envApi, legacy.api_url),
                 getenv(envCert, legacy.cert_sha256))

----------------------------------------------------------------------------
(* The profile store called directly *)

Ret(op, result) == [op |-> op, result |-> result]

SaveProfile(profile, api_url, cert_sha256) ==
    /\ configDirExists' = TRUE
    /\ IF save_raises(get_config, profile, api_url, cert_sha256)
       THEN /\ UNCHANGED <<configExists, config>>
            /\ ret' = Ret("save_profile", "ValueError")
       ELSE /\ configExists' = TRUE
            /\ config' = save_profile(get_config, profile, api_url, cert_sha256)
            /\ ret' = Ret("save_profile", "None")
    /\ UNCHANGED <<legacy, row, runVars>>

RemoveProfile(profile) ==
    /\ IF ~HasSection(get_config, profile)
       THEN /\ UNCHANGED storeVars
            /\ ret' = Ret("remove_profile", "False")
       ELSE /\ configExists' = TRUE
            /\ config' = remove_profile(get_config, profile)
            /\ UNCHANGED configDirExists
            /\ ret' = Ret("remove_profile", "True")
    /\ UNCHANGED <<legacy, row, runVars>>

MigrateFromEnv(dotenv, envApi, envCert) ==
    /\ ret' = Ret("migrate_from_env", migrate_from_env(dotenv, envApi, envCert))
    /\ IF migrate_from_env(dotenv, envApi, envCert) = "False"
       THEN UNCHANGED storeVars
       ELSE /\ configDirExists' = TRUE
            /\ IF migrate_from_env(dotenv, envApi, envCert) = "ValueError"
               THEN UNCHANGED <<configExists, config>>
               ELSE /\ configExists' = TRUE
                    /\ config' = migrated_config(envApi, envCert)
    /\ UNCHANGED <<legacy, row, runVars>>

Row(view, name, url, shown_name, shown_url) ==
    [view |-> view, name |-> name, url |-> url,
     shown_name |-> shown_name, shown_url |-> shown_url]

NoRow == Row("none", None, None, None, None)

NoArgs ==
    [command |-> "", profile |-> "", name |-> "", key_id |-> 0, mb |-> NoMb]

Init ==
    /\ configDirExists = FALSE
    /\ configExists = FALSE
    /\ config = <<>>
    /\ legacy \in LegacyFiles
    /\ ret = Ret("none", "None")
    /\ pc = "idle"
    /\ args = NoArgs
    /\ client = NoClient
    /\ calls = <<>>
    /\ writes = <<>>
    /\ out = <<>>
    /\ exitCode = -1
    /\ row = NoRow

Next ==
    \/ \E p \in ProfileNames, a \in ApiArgs, c \in CertValues :
          SaveProfile(p, a, c)
    \/ \E p \in ProfileNames : RemoveProfile(p)
    \/ \E d \in BOOLEAN, ea \in EnvApi, ec \in EnvCert : MigrateFromEnv(d, ea, ec)

Spec == Init /\ [][Next]_vars

InList(p) == HasSection(get_config, p)

----------------------------------------------------------------------------
(* Output formatting *)

NameWidth == 18

UrlWidth == 40

ProfileUrlWidth == 38

\* The one-character ellipsis (U+2026) cmd_list ends a cut name with.
Ellipsis == <<"~">>

Dots == <<".", ".", ".">>

Unnamed == <<"(", "u", "n", "n", "a", "m", "e", "d", ")">>

\* s[:n]
Prefix(s, n) == SubSeq(s, 1, IF Len(s) < n THEN Len(s) ELSE n)

\* Faulty variant: keeps NameWidth characters before the ellipsis.
name_column_wide(name) ==
    LET shown == IF Falsy(name) THEN Unnamed ELSE name
    IN  IF Len(shown) > NameWidth
        THEN Prefix(shown, NameWidth) \o Ellipsis
        ELSE shown

\* cmd_list: the name column of a key's row, before padding.
name_column(name) ==
    LET shown == IF Falsy(name) THEN Unnamed ELSE name
    IN  IF Len(shown) > NameWidth
        THEN Prefix(shown, NameWidth - 1) \o Ellipsis
        ELSE shown

\* cmd_list: the access URL column of a key's row.
url_column(access_url) ==
    LET shown == IF Falsy(access_url) THEN <<>> ELSE access_url
    IN  IF Len(shown) > UrlWidth
        THEN Prefix(shown, UrlWidth - 3) \o Dots
        ELSE shown

\* cmd_profile_list: the API URL column of a profile's row.
profile_url_column(api_url) ==
    IF Len(api_url) > ProfileUrlWidth
    THEN Prefix(api_url, ProfileUrlWidth - 3) \o Dots
    ELSE api_url

\* s[-n:]
Suffix(s, n) == SubSeq(s, IF Len(s) < n THEN 1 ELSE Len(s) - n + 1, Len(s))

\* cmd_profile_show: the fingerprint with its middle masked.
masked_cert(cert_sha256) ==
    IF Len(cert_sha256) > 20
    THEN Prefix(cert_sha256, 8) \o Dots \o Suffix(cert_sha256, 8)
    ELSE cert_sha256

\* Longest name or URL put in a row.
MaxFieldLen == 42

Chars == <<"a", "b", "/">>

\* A text of n characters.
Text(n, k) == [i \in 1..n |-> Chars[((i * k) % 3) + 1]]

FieldValues == {Text(n, k) : n \in 0..MaxFieldLen, k \in 1..2}

\* The rows to show: a key of cmd_list with its name and access URL (either
\* may be None), a profile of cmd_profile_list with its name and API URL.
Rows ==
    {Row("list", n, u, None, None) :
        n \in {None, Text(0, 1), Text(NameWidth - 1, 1), Text(NameWidth, 1),
                Text(NameWidth + 1, 2), Text(MaxFieldLen, 1)},
        u \in FieldValues \cup {None}}
    \cup {Row("list", n, u, None, None) :
        n \in FieldValues,
        u \in {None, Text(UrlWidth, 1), Text(UrlWidth + 1, 2)}}
    \cup {Row("profile list", <<"h">>, u, None, None) : u \in FieldValues}

\* cmd_list: one key's row.
CmdListRow ==
    /\ row.view = "list"
    /\ row.shown_name = None
    /\ row' = [row EXCEPT !.shown_name = name_column(row.name),
                          !.shown_url = url_column(row.url)]
    /\ UNCHANGED <<storeVars, legacy, ret, runVars>>

\* cmd_profile_list: one profile's row.
CmdProfileListRow ==
    /\ row.view = "profile list"
    /\ row.shown_name = None
    /\ row' = [row EXCEPT !.shown_name = row.name,
                          !.shown_url = profile_url_column(row.url)]
    /\ UNCHANGED <<storeVars, legacy, ret, runVars>>

----------------------------------------------------------------------------
(* main(): the command line *)

\* Largest numerator of the mb argument of limit.
MaxMb == 10

MbNums == {-3, 0, 3, MaxMb}

MbDens == {1, 10}

\* The mb argument, as float() parses it: a finite number num/den, or
\* nan, or inf.
MbInputs ==
    {[kind |-> "finite", num |-> n, den |-> d] :
        n \in MbNums, d \in MbDens}
    \cup {[kind |-> k, num |-> 0, den |-> 1] : k \in {"nan", "inf"}}

KeyIds == {1, 2}

KeyNames == {"", "laptop"}

Args(command, profile, name, key_id, mb) ==
    [command |-> command, profile |-> profile, name |-> name,
     key_id |-> key_id, mb |-> mb]

DataArgs ==
    {Args("list", p, "", 0, NoMb) : p \in ProfileNames}
    \cup {Args(c, p, "", k, NoMb) :
            c \in {"show", "delete"}, p \in ProfileNames, k \in KeyIds}
    \cup {Args("add", p, n, 0, NoMb) : p \in ProfileNames, n \in KeyNames}
    \cup {Args("rename", p, "laptop", k, NoMb) : p \in ProfileNames, k \in KeyIds}
    \cup {Args("limit", p, "", k, mb) :
            p \in ProfileNames, k \in KeyIds, mb \in MbInputs}

\* What a prompt may be answered with: a value with blanks around it.
Typed(S) == {Spaces(k) \o v \o Spaces(k) : v \in S, k \in 0..MaxPad}

ConfirmAnswers == Typed({<<>>, <<"y">>, <<"Y">>, <<"n">>})

\* str.lower()
lower(s) ==
    [i \in DOMAIN s |-> IF s[i] = "Y" THEN "y" ELSE IF s[i] = "N" THEN "n" ELSE s[i]]

Line(text, arg) == [text |-> text, arg |-> arg]

\* One save_profile or remove_profile call and how it ended.
Write(op, profile, result) == [op |-> op, profile |-> profile, result |-> result]

\* sys.exit(code), or main() returning (code 0), after printing lines.
Exit(code, lines) ==
    /\ pc' = "exited"
    /\ exitCode' = code
    /\ out' = out \o lines

\* An uncaught exception: the traceback, then exit status 1.
Crash(exception) == Exit(1, <<Line("Traceback", <<exception>>)>>)

\* main() with no command, or "profile" with no subcommand: help, exit 1.
Usage(command) ==
    /\ pc = "idle"
    /\ args' = Args(command, "default", "", 0, NoMb)
    /\ Exit(1, <<Line("usage", <<>>)>>)
    /\ UNCHANGED <<storeVars, legacy, ret, row, client, calls, writes>>

\* OutlineArgumentParser.error: help and the message, exit 2.
ArgumentError ==
    /\ pc = "idle"
    /\ args' = NoArgs
    /\ Exit(2, <<Line("usage", <<>>), Line("Error: ", <<"argument">>)>>)
    /\ UNCHANGED <<storeVars, legacy, ret, row, client, calls, writes>>

\* The profile setup_profile is run for.
setup_target ==
    IF args.command = "profile add" THEN args.name ELSE args.profile

SetupPrompt(profile) == Line("Setup profile", <<profile>>)

\* main -> cmd_profile_add, up to setup_profile's first prompt.
ProfileAdd(name) ==
    /\ pc = "idle"
    /\ args' = Args("profile add", "default", name, 0, NoMb)
    /\ IF InList(name)
       THEN Exit(1, <<Line("Profile already exists", <<name>>)>>)
       ELSE /\ pc' = "setup_profile"
            /\ out' = Append(out, SetupPrompt(name))
            /\ UNCHANGED exitCode
    /\ UNCHANGED <<storeVars, legacy, ret, row, client, calls, writes>>

\* setup_profile from its prompts on, then the rest of its caller: main
\* returns after cmd_profile_add, get_client builds the client.
SetupProfile(typedApi, typedCert) ==
    LET api_url == strip(typedApi)
        cert_sha256 == strip(typedCert)
    IN  /\ pc = "setup_profile"
        /\ IF api_url = <<>> \/ cert_sha256 = <<>>
           THEN /\ Exit(1, <<Line("Error: Both values are required", <<>>)>>)
                /\ UNCHANGED <<storeVars, writes, client>>
           ELSE IF save_raises(get_config, setup_target, api_url, cert_sha256)
           THEN /\ configDirExists' = TRUE
                /\ writes' = Append(writes,
                                Write("save_profile", setup_target, "ValueError"))
                /\ Crash("ValueError")
                /\ UNCHANGED <<configExists, config, client>>
           ELSE /\ configDirExists' = TRUE
                /\ configExists' = TRUE
                /\ config' = save_profile(get_config, setup_target,
                                          api_url, cert_sha256)
                /\ writes' = Append(writes,
                                Write("save_profile", setup_target, "None"))
                /\ IF args.command = "profile add"
                   THEN /\ Exit(0, <<Line("Profile saved", <<setup_target>>)>>)
                        /\ UNCHANGED client
                   ELSE /\ out' = Append(out, Line("Profile saved", <<setup_target>>))
                        /\ client' = <<api_url, cert_sha256>>
                        /\ pc' = "cmd"
                        /\ UNCHANGED exitCode
        /\ UNCHANGED <<legacy, ret, row, args, calls>>

\* The rows cmd_profile_list prints.
profile_rows ==
    [i \in DOMAIN get_config |->
        Line(get_config[i].name,
             profile_url_column(load_profile(get_config, get_config[i].name)[1]))]

\* main -> cmd_profile_list
ProfileList ==
    /\ pc = "idle"
    /\ args' = Args("profile list", "default", "", 0, NoMb)
    /\ IF list_profiles(get_config) = <<>>
       THEN Exit(0, <<Line("No profiles configured.", <<>>),
                      Line("Run: outline_cli.py profile add <name>", <<>>)>>)
       ELSE Exit(0, <<Line("Profile / API URL", <<>>)>> \o profile_rows)
    /\ UNCHANGED <<storeVars, legacy, ret, row, client, calls, writes>>

\* main -> cmd_profile_remove, up to its prompt.
ProfileRemove(name) ==
    /\ pc = "idle"
    /\ args' = Args("profile remove", "default", name, 0, NoMb)
    /\ IF ~InList(name)
       THEN Exit(1, <<Line("Profile not found", <<name>>)>>)
       ELSE /\ pc' = "confirm"
            /\ UNCHANGED <<out, exitCode>>
    /\ UNCHANGED <<storeVars, legacy, ret, row, client, calls, writes>>

\* cmd_profile_remove from the answer to its prompt on.
Confirm(answer) ==
    /\ pc = "confirm"
    /\ IF lower(strip(answer)) # <<"y">>
       THEN /\ Exit(0, <<Line("Cancelled", <<>>)>>)
            /\ UNCHANGED <<storeVars, writes>>
       ELSE IF ~InList(args.name)
       THEN /\ Exit(1, <<Line("Failed to remove profile", <<args.name>>)>>)
            /\ writes' = Append(writes, Write("remove_profile", args.name, "False"))
            /\ UNCHANGED storeVars
       ELSE /\ Exit(0, <<Line("Removed profile", <<args.name>>)>>)
            /\ writes' = Append(writes, Write("remove_profile", args.name, "True"))
            /\ configExists' = TRUE
            /\ config' = remove_profile(get_config, args.name)
            /\ UNCHANGED configDirExists
    /\ UNCHANGED <<legacy, ret, row, args, client, calls>>

\* main -> cmd_profile_show
ProfileShow(name) ==
    /\ pc = "idle"
    /\ args' = Args("profile show", "default", name, 0, NoMb)
    /\ IF ~InList(name)
       THEN Exit(1, <<Line("Profile not found", <<name>>)>>)
       ELSE Exit(0, <<Line("Profile", <<name>>),
                      Line("API URL", load_profile(get_config, name)[1]),
                      Line("Cert SHA256",
                           masked_cert(load_profile(get_config, name)[2]))>>)
    /\ UNCHANGED <<storeVars, legacy, ret, row, client, calls, writes>>

\* 1024 * 1024
MB == 1048576

\* int(x) for the number n/d: truncation toward zero.
Trunc(n, d) == IF n >= 0 THEN n \div d ELSE -((-n) \div d)

\* Faulty variant: decimal megabytes.
limit_bytes_decimal(mb) == Trunc(mb.num * 1000000, mb.den)

\* cmd_limit: limit_bytes = int(mb * 1024 * 1024), for a finite mb.
limit_bytes(mb) == Trunc(mb.num * MB, mb.den)

\* What a remote call may do: raise, or return something true or false
\* (a key list that is empty, or without the key asked for, counts as false).
RemoteResults == {"raise", "truthy", "falsy"}

\* The message of the exception a failed remote call raises.
RemoteMessage == "connection refused"

Call(op, key_id, name, bytes, result) ==
    [op |-> op, key_id |-> key_id, name |-> name, bytes |-> bytes,
     result |-> result]

\* Faulty variant: runs the setup whenever the credentials are missing.
get_client_guess(cfg, profile) ==
    IF ~Falsy(load_profile(cfg, profile)[1]) /\ ~Falsy(load_profile(cfg, profile)[2])
    THEN "client"
    ELSE "setup"

\* get_client once the credentials are loaded: build the client, report
\* the profile as not found, or run the first-time setup.
get_client_branch(cfg, profile) ==
    IF ~Falsy(load_profile(cfg, profile)[1]) /\ ~Falsy(load_profile(cfg, profile)[2])
    THEN "client"
    ELSE IF list_profiles(cfg) # <<>> THEN "not_found"
    ELSE "setup"

\* main -> get_client for a data command, up to setup_profile's first
\* prompt or to the client.  deps: whether outline_vpn can be imported.
GetClient(a, deps, dotenv, envApi, envCert) ==
    LET m == migrate_from_env(dotenv, envApi, envCert)
        cfg == IF m = "True" THEN migrated_config(envApi, envCert) ELSE get_config
        cred == load_profile(cfg, a.profile)
        told == IF m = "True"
                THEN <<Line("Migrated credentials from .env", <<"default">>)>>
                ELSE <<>>
    IN  /\ pc = "idle"
        /\ args' = a
        /\ IF ~deps
           THEN /\ Exit(1, <<Line("Missing dependencies", <<>>)>>)
                /\ UNCHANGED <<storeVars, writes, client>>
           ELSE IF m = "ValueError"
           THEN /\ configDirExists' = TRUE
                /\ writes' = <<Write("save_profile", "default", "ValueError")>>
                /\ Crash("ValueError")
                /\ UNCHANGED <<configExists, config, client>>
           ELSE /\ IF m = "True"
                   THEN /\ configDirExists' = TRUE
                        /\ configExists' = TRUE
                        /\ config' = cfg
                        /\ writes' = <<Write("save_profile", "default", "None")>>
                   ELSE UNCHANGED <<storeVars, writes>>
                /\ IF get_client_branch(cfg, a.profile) = "not_found"
                   THEN /\ Exit(1, told \o
                                <<Line("Error: Profile not found", <<a.profile>>),
                                  Line("Available profiles", list_profiles(cfg))>>)
                        /\ UNCHANGED client
                   ELSE IF get_client_branch(cfg, a.profile) = "setup"
                   THEN /\ out' = out \o told \o
                                <<Line("No profiles configured.", <<>>),
                                  SetupPrompt(a.profile)>>
                        /\ pc' = "setup_profile"
                        /\ UNCHANGED <<client, exitCode>>
                   ELSE /\ client' = cred
                        /\ out' = out \o told
                        /\ pc' = "cmd"
                        /\ UNCHANGED exitCode
        /\ UNCHANGED <<legacy, ret, row, calls>>

\* The except clause of cmd_list, cmd_show, cmd_delete, cmd_rename, cmd_limit.
ErrorLine(message) == Line("Error: ", <<message>>)

\* The except clause of cmd_add.
AddErrorLine(message) == Line("Error creating key: ", <<message>>)

\* Faulty variant: the call is made a second time.
Called_retry(call, code, lines) ==
    /\ calls' = calls \o <<call, call>>
    /\ Exit(code, lines)
    /\ UNCHANGED <<storeVars, legacy, ret, row, args, client, writes>>

\* The part of a command after its one remote call.
Called(call, code, lines) ==
    /\ calls' = Append(calls, call)
    /\ Exit(code, lines)
    /\ UNCHANGED <<storeVars, legacy, ret, row, args, client, writes>>

CmdList(result) ==
    /\ pc = "cmd"
    /\ args.command = "list"
    /\ LET call == Call("get_keys", 0, "", 0, result)
       IN  CASE result = "raise" -> Called(call, 1, <<ErrorLine(RemoteMessage)>>)
             [] result = "falsy" -> Called(call, 0, <<Line("No access keys found", <<>>)>>)
             [] result = "truthy" ->
                    Called(call, 0, <<Line("ID / Name / Usage (MB) / Access URL", <<>>),
                                      Line("rows", <<>>)>>)

CmdShow(result) ==
    /\ pc = "cmd"
    /\ args.command = "show"
    /\ LET call == Call("get_keys", 0, "", 0, result)
       IN  CASE result = "raise" -> Called(call, 1, <<ErrorLine(RemoteMessage)>>)
             [] result = "falsy" -> Called(call, 1, <<Line("Key not found", <<args.key_id>>)>>)
             [] result = "truthy" -> Called(call, 0, <<Line("ID", <<args.key_id>>)>>)

\* create_key returns the key or raises.
CmdAdd(result) ==
    /\ pc = "cmd"
    /\ args.command = "add"
    /\ result # "falsy"
    /\ LET call == Call("create_key", 0, args.name, 0, result)
       IN  CASE result = "raise" -> Called(call, 1, <<AddErrorLine(RemoteMessage)>>)
             [] result = "truthy" -> Called(call, 0, <<Line("Created key", <<args.name>>)>>)

CmdDelete(result) ==
    /\ pc = "cmd"
    /\ args.command = "delete"
    /\ LET call == Call("delete_key", args.key_id, "", 0, result)
       IN  CASE result = "raise" -> Called(call, 1, <<ErrorLine(RemoteMessage)>>)
             [] result = "falsy" -> Called(call, 1, <<Line("Failed to delete key", <<args.key_id>>)>>)
             [] result = "truthy" -> Called(call, 0, <<Line("Deleted key", <<args.key_id>>)>>)

CmdRename(result) ==
    /\ pc = "cmd"
    /\ args.command = "rename"
    /\ LET call == Call("rename_key", args.key_id, args.name, 0, result)
       IN  CASE result = "raise" -> Called(call, 1, <<ErrorLine(RemoteMessage)>>)
             [] result = "falsy" -> Called(call, 1, <<Line("Failed to rename key", <<args.key_id>>)>>)
             [] result = "truthy" -> Called(call, 0, <<Line("Renamed key", <<args.key_id>>)>>)

\* Which branch cmd_limit takes: "clear" (mb == 0), "set", or "error" when
\* int() raises on nan or inf before any call.
limit_branch(mb) ==
    IF mb.kind # "finite" THEN "error"
    ELSE IF mb.num = 0 THEN "clear"
    ELSE "set"

CmdLimit(result) ==
    /\ pc = "cmd"
    /\ args.command = "limit"
    /\ LET clear == Call("delete_data_limit", args.key_id, "", 0, result)
           set == Call("add_data_limit", args.key_id, "",
                       limit_bytes(args.mb), result)
       IN  IF limit_branch(args.mb) = "error"
           THEN /\ result = "raise"
                /\ Exit(1, <<ErrorLine("cannot convert float to integer")>>)
                /\ UNCHANGED <<storeVars, legacy, ret, row, args, client, writes, calls>>
           ELSE IF limit_branch(args.mb) = "clear"
           THEN IF result = "raise"
                THEN Called(clear, 1, <<ErrorLine(RemoteMessage)>>)
                ELSE IF result = "falsy"
                THEN Called(clear, 1,
                            <<Line("Failed to remove limit", <<args.key_id>>)>>)
                ELSE Called(clear, 0, <<Line("Removed limit", <<args.key_id>>)>>)
           ELSE IF result = "raise"
                THEN Called(set, 1, <<ErrorLine(RemoteMessage)>>)
                ELSE IF result = "falsy"
                THEN Called(set, 1, <<Line("Failed to set limit", <<args.key_id>>)>>)
                ELSE Called(set, 0, <<Line("Set limit", <<args.key_id>>)>>)

\* The process is gone; the next command line starts a new one.
ProcessEnd ==
    /\ pc = "exited"
    /\ pc' = "idle"
    /\ args' = NoArgs
    /\ client' = NoClient
    /\ calls' = <<>>
    /\ writes' = <<>>
    /\ out' = <<>>
    /\ exitCode' = -1
    /\ UNCHANGED <<storeVars, legacy, ret, row>>

NextCli ==
    \/ \E c \in {"", "profile"} : Usage(c)
    \/ ArgumentError
    \/ \E n \in ProfileNames : ProfileAdd(n)
    \/ \E a \in Typed(ApiValues), c \in CertValues \cup {Spaces(1)} :
          SetupProfile(a, c)
    \/ ProfileList
    \/ \E n \in ProfileNames : ProfileRemove(n)
    \/ \E answer \in ConfirmAnswers : Confirm(answer)
    \/ \E n \in ProfileNames : ProfileShow(n)
    \/ \E a \in DataArgs, deps \in BOOLEAN, d \in BOOLEAN,
          ea \in EnvApi, ec \in EnvCert : GetClient(a, deps, d, ea, ec)
    \/ \E r \in RemoteResults : CmdList(r)
    \/ \E r \in RemoteResults : CmdShow(r)
    \/ \E r \in RemoteResults : CmdAdd(r)
    \/ \E r \in RemoteResults : CmdDelete(r)
    \/ \E r \in RemoteResults : CmdRename(r)
    \/ \E r \in RemoteResults : CmdLimit(r)
    \/ ProcessEnd

SpecCli == Init /\ [][NextCli]_vars

InitFmt ==
    /\ configDirExists = FALSE
    /\ configExists = FALSE
    /\ config = <<>>
    /\ legacy = NoLegacy
    /\ ret = Ret("none", "None")
    /\ pc = "idle"
    /\ args = NoArgs
    /\ client = NoClient
    /\ calls = <<>>
    /\ writes = <<>>
    /\ out = <<>>
    /\ exitCode = -1
    /\ row \in Rows

NextFmt == CmdListRow \/ CmdProfileListRow

SpecFmt == InitFmt /\ [][NextFmt]_vars

----------------------------------------------------------------------------
(* Claims *)

\* C1: load_profile(p) right after save_profile(p, api_url, cert_sha256)
\* returns exactly (api_url, cert_sha256), for every profile name and every
\* pair, whatever the store held.
C1_SaveThenLoad ==
    [][\A p \in ProfileNames, a \in ApiArgs, c \in CertValues :
          SaveProfile(p, a, c) => load_profile(get_config, p)' = <<a, c>>]_vars

\* C2: remove_profile(p) of a name not in the store returns False and leaves
\* the store as it was; of a name in the store it returns True and p is in no
\* later list_profiles() until save_profile(p, ...) is called again (once a
\* removal has written CONFIG_FILE, the file exists for good).
C2_Remove ==
    [][\A p \in ProfileNames :
          /\ (RemoveProfile(p) /\ ~InList(p)) =>
                (ret'.result = "False" /\ UNCHANGED storeVars)
          /\ (RemoveProfile(p) /\ InList(p)) =>
                (ret'.result = "True" /\ ~InList(p)' /\ configExists')
          /\ (configExists /\ ~InList(p) /\ InList(p)') =>
                \E a \in ApiArgs, c \in CertValues : SaveProfile(p, a, c)
          /\ configExists => configExists']_vars

\* C2 witness: a profile was removed and another one is still listed.
C2_Witness ==
    /\ ret = Ret("remove_profile", "True")
    /\ Len(list_profiles(get_config)) = 1

\* C3: migrate_from_env changes nothing and returns False unless CONFIG_FILE
\* is absent and OLD_ENV_FILE is present; once it has migrated, CONFIG_FILE
\* exists from then on, so running it again (at once or later) is a no-op.
C3_Migrate ==
    [][\A d \in BOOLEAN, ea \in EnvApi, ec \in EnvCert :
          MigrateFromEnv(d, ea, ec) =>
             /\ ~(legacy.exists /\ ~configExists) =>
                   (ret'.result = "False" /\ UNCHANGED storeVars)
             /\ ret = Ret("migrate_from_env", "True") =>
                   (ret'.result = "False" /\ UNCHANGED storeVars)
             /\ ret'.result = "True" =>
                   (legacy.exists /\ ~configExists /\ configExists')
             /\ configExists => configExists']_vars

\* C3 witness: migrate_from_env has just returned False with both files in
\* place and the migrated "default" profile in the store.
C3_Witness ==
    /\ ret = Ret("migrate_from_env", "False")
    /\ legacy.exists
    /\ configExists
    /\ InList("default")

DataCommands == {"list", "show", "add", "delete", "rename", "limit"}

Printed(line) == \E i \in DOMAIN out : out[i] = line

\* The process has ended after cmd_limit ran.
LimitRan == pc = "exited" /\ args.command = "limit" /\ client # NoClient

MissingAmongOthers ==
    /\ pc = "idle"
    /\ args'.command \in DataCommands
    /\ ~InList(args'.profile)
    /\ list_profiles(get_config) # <<>>

\* The process ends with status 1 without setup, store write, client or call.
EndsUntouched ==
    /\ pc' = "exited"
    /\ exitCode' = 1
    /\ \A i \in DOMAIN out' : out'[i].text # "Setup profile"
    /\ UNCHANGED storeVars
    /\ writes' = <<>>
    /\ client' = NoClient
    /\ calls' = <<>>

ListsProfiles ==
    \E i \in DOMAIN out' :
        out'[i] = Line("Available profiles", list_profiles(get_config))

\* C5 as claimed: asking for a profile that is not in the store while
\* another is exits with status 1 and lists the existing profile names,
\* without setup, store write, client or remote call.
C5_Original ==
    [][MissingAmongOthers => (EndsUntouched /\ ListsProfiles)]_vars

\* C5: asking for a profile that is not in the store while another is
\* exits with status 1 without setup, store write, client or remote call;
\* it lists the existing profile names, unless outline_vpn cannot be
\* imported, and then it prints only the missing-dependencies message.
C5_MissingProfile ==
    [][MissingAmongOthers =>
          /\ EndsUntouched
          /\ \/ ListsProfiles
             \/ out' = <<Line("Missing dependencies", <<>>)>>]_vars

\* C5 witness: a data command has ended with the list of available profiles.
C5_Witness ==
    /\ pc = "exited"
    /\ args.command \in DataCommands
    /\ exitCode = 1
    /\ ~InList(args.profile)
    /\ Printed(Line("Available profiles", list_profiles(get_config)))

\* C6: whenever the remote call of a data command raises, the process
\* prints "Error: <message>" with the exception's message and exits with
\* status 1, having made that one call only.
C6_RemoteFailure ==
    (pc = "exited" /\ calls # <<>> /\ calls[Len(calls)].result = "raise") =>
       /\ exitCode = 1
       /\ out[Len(out)] = Line("Error: ", <<RemoteMessage>>)
       /\ Len(calls) = 1

C8_FirstTimeSetup ==
    [][/\ (/\ pc = "idle"
           /\ args'.command \in DataCommands
           /\ list_profiles(get_config)' = <<>>
           /\ out' # <<Line("Missing dependencies", <<>>)>>
           /\ out' # <<Line("Traceback", <<"ValueError">>)>>)
          => pc' = "setup_profile"
       /\ \A a \in Typed(ApiValues), c \in CertValues \cup {Spaces(1)} :
             (SetupProfile(a, c) /\ args.command \in DataCommands) =>
                IF strip(a) # <<>> /\ strip(c) # <<>>
                THEN /\ InList(args.profile)'
                     /\ SectionOf(get_config, args.profile)' =
                           Section(args.profile, strip(a), strip(c))
                     /\ client' = <<strip(a), strip(c)>>
                     /\ pc' = "cmd"
                ELSE /\ pc' = "exited"
                     /\ exitCode' = 1
                     /\ UNCHANGED storeVars
                     /\ calls' = <<>>]_vars

\* A step changes the credentials of profile q only by a save_profile or
\* remove_profile call that names q.
OnlyNamedProfileChanges ==
    \A q \in ProfileNames :
        load_profile(get_config, q)' # load_profile(get_config, q) =>
           /\ Len(writes') = Len(writes) + 1
           /\ writes'[Len(writes')].profile = q

\* profile add of a name already in the store exits 1 and changes nothing.
AddExistingRefused ==
    (pc = "idle" /\ args'.command = "profile add" /\ InList(args'.name)) =>
       (pc' = "exited" /\ exitCode' = 1 /\ UNCHANGED storeVars)

\* C10 as claimed: a store operation changes only the profile it names,
\* profile add of an existing name exits 1 without a change, and profile
\* remove answered with anything but "y" leaves the store unchanged.
C10_Original ==
    [][/\ OnlyNamedProfileChanges
       /\ AddExistingRefused
       /\ \A answer \in ConfirmAnswers :
             (Confirm(answer) /\ answer # <<"y">>) => UNCHANGED storeVars]_vars

\* C10: as claimed, where the answer counts as "y" once the blanks around
\* it are dropped and it is lowercased ("Y" and " y " remove the profile).
C10_Frame ==
    [][/\ OnlyNamedProfileChanges
       /\ AddExistingRefused
       /\ \A answer \in ConfirmAnswers :
             (Confirm(answer) /\ lower(strip(answer)) # <<"y">>) =>
                UNCHANGED storeVars]_vars

\* C10 witness: a profile has been saved beside another one, which is
\* still in the store.
C10_Witness ==
    /\ pc = "exited"
    /\ writes = <<Write("save_profile", "home", "None")>>
    /\ InList("default")
    /\ InList("home")

\* A value v shown as s in a column of width w whose ellipsis is e: cut to
\* w characters ending in e when longer than w, unchanged otherwise.
ShownCut(v, s, w, e) ==
    IF Len(v) > w
    THEN s = Prefix(v, w - Len(e)) \o e /\ Len(s) <= w
    ELSE s = v

RowShown == row.view # "none" /\ row.shown_name # None

\* C9 as claimed: in the list views a name or URL longer than its column
\* (18, 40, 38) is shown cut to the column's width with a trailing
\* ellipsis, and one that is not longer is shown unchanged.
C9_Original ==
    RowShown =>
       IF row.view = "list"
       THEN /\ row.name # None =>
                ShownCut(row.name, row.shown_name, 18, Ellipsis)
            /\ row.url # None => ShownCut(row.url, row.shown_url, 40, Dots)
       ELSE ShownCut(row.url, row.shown_url, 38, Dots)

\* C9: as claimed for every non-empty name and every URL; a key whose name
\* is empty or None shows "(unnamed)", and one whose access URL is None
\* shows an empty URL.
C9_Truncation ==
    RowShown =>
       IF row.view = "list"
       THEN /\ IF row.name = None \/ row.name = <<>>
               THEN row.shown_name = Unnamed
               ELSE ShownCut(row.name, row.shown_name, 18, Ellipsis)
            /\ IF row.url = None
               THEN row.shown_url = <<>>
               ELSE ShownCut(row.url, row.shown_url, 40, Dots)
       ELSE ShownCut(row.url, row.shown_url, 38, Dots)

\* C9 witness: a key's 19-character name is shown in 18 characters and its
\* 41-character URL in 40.
C9_Witness ==
    /\ RowShown
    /\ row.view = "list"
    /\ Len(row.name) = 19
    /\ Len(row.shown_name) = 18
    /\ Len(row.url) = 41
    /\ Len(row.shown_url) = 40

====
